---- MODULE Spec2Model ----
(***************************************************************************)
(* One orchestration pass of executeToolCall (lib/streaming/tool-execution)*)
(* and the adapters it dispatches to.  Both versions of executeToolCall    *)
(* kept in the repository are modelled; `version` says which one runs.     *)
(*                                                                         *)
(* Optional JavaScript values are sequences of length 0 or 1: <<>> is      *)
(* undefined, <<v>> is the value v.                                        *)
(***************************************************************************)
EXTENDS Integers, Sequences, FiniteSets, TLC

VARIABLES
  version,            \* 1: first executeToolCall, 2: second executeToolCall
  searchMode,         \* argument searchMode
  model,              \* argument model (model id)
  coreMessages,       \* argument coreMessages (the conversation)
  sinkFaulty,         \* TRUE when dataStream writes are able to throw
  pc,                 \* position inside executeToolCall
  selectionCalls,     \* messages handed to each generateText call
  text,               \* toolSelectionResponse.text
  parserCalls,        \* schema handed to each parseToolCallXml call
  toolCall,           \* toolCall (optional)
  toolCallId,         \* toolCallId (optional)
  toolResultJson,     \* toolResultJson (optional)
  toolError,          \* the error caught by the catch block (optional)
  dataStream,         \* events the progress sink has received, in order
  adapterCalls,       \* adapter invocations made, in order
  httpLog,            \* HTTP requests issued by the market-data fetchers
  marketCall,         \* what the dispatched market-data execute did (optional)
  adapterRun,         \* an adapter called on its own: input and outcome (optional)
  returned,           \* value returned by executeToolCall (optional)
  thrown              \* exception that escaped executeToolCall (optional)

vars == <<version, searchMode, model, coreMessages, sinkFaulty, pc,
          selectionCalls, text, parserCalls, toolCall, toolCallId,
          toolResultJson, toolError, dataStream, adapterCalls, httpLog, marketCall, adapterRun,
          marketCall, adapterRun, returned, thrown>>

----------------------------------------------------------------------------
(* Bounds of the model *)

\* longest conversation handed to executeToolCall
MaxConv == 6

\* number of distinct values generateId can produce
NumIds == 2

None == <<>>
Some(v) == <<v>>
Opt(S) == {None} \cup {Some(v) : v \in S}

----------------------------------------------------------------------------
(* Inputs *)

Models == {"openai:gpt-4o", "ollama:llama3"}

\* model?.includes('ollama')
IncludesOllama(m) == m = "ollama:llama3"

Conversations == {[i \in 1..n |-> i] : n \in 0..MaxConv}

\* A model completion, abstracted to what the markup parser looks at:
\* whether a well-formed tool_call block is present, the tool name, whether
\* a parameters block is present and the raw text of each parameter tag.
NoFields ==
  [query |-> None, max_results |-> None, search_depth |-> None,
   tokenSymbol |-> None, tokenMintAddress |-> None]

PlainCompletions ==
  {[markup |-> m, tool |-> "", hasParams |-> FALSE, fields |-> NoFields] :
     m \in {"none", "malformed", "ok"}}

SearchCompletions ==
  {[markup |-> "ok", tool |-> "search", hasParams |-> hp,
    fields |-> [NoFields EXCEPT !.query = q, !.max_results = mr,
                                !.search_depth = sd]] :
     hp \in {TRUE},
     q \in Opt({"", "sol", "Nosana $NOS overview"}),
     mr \in Opt({"3", "0", "abc"}),
     sd \in Opt({"advanced", ""})}
  \cup {[markup |-> "ok", tool |-> "search", hasParams |-> FALSE,
         fields |-> NoFields]}

MarketCompletions ==
  {[markup |-> "ok", tool |-> "getSolanaTokenMarketDataTool",
    hasParams |-> TRUE,
    fields |-> [NoFields EXCEPT !.tokenSymbol = s, !.tokenMintAddress = a]] :
     s \in Opt({"", "$NOS"}), a \in Opt({"", "nosMint"})}

OtherCompletions ==
  {[markup |-> "ok", tool |-> "retrieve", hasParams |-> TRUE,
    fields |-> NoFields]}

Completions ==
  PlainCompletions \cup SearchCompletions \cup MarketCompletions
    \cup OtherCompletions

----------------------------------------------------------------------------
(* JavaScript helpers *)

\* truthiness of an optional string / an optional number
TruthyStr(o) == o # None /\ o[1] # ""
TruthyNum(o) == o # None /\ o[1] # 0

\* a || b on optional strings / numbers
OrElseNum(o, d) == IF TruthyNum(o) THEN o[1] ELSE d
OrElseStr(o, d) == IF TruthyStr(o) THEN o[1] ELSE d

Min(a, b) == IF a <= b THEN a ELSE b
Max(a, b) == IF a >= b THEN a ELSE b

\* Array.prototype.slice(start) for start <= 0: a negative start counts from
\* the end and is clamped to the beginning, -0 is 0
JsSlice(arr, start) ==
  LET from == IF start < 0 THEN Max(Len(arr) + start, 0) ELSE 0
  IN  SubSeq(arr, from + 1, Len(arr))

\* JSON.stringify: undefined stays undefined, a value becomes its JSON text
JSONstringify(o) == IF o = None THEN None ELSE Some([json |-> o[1]])

\* JSON.stringify({ error: ... }); the message is kept as its pieces
ErrorJson(pieces) == JSONstringify(Some([error |-> pieces]))

----------------------------------------------------------------------------
(* parseToolCallXml, lib/streaming/parse-tool-call (not among the sources) *)

SchemaNames == {"none", "searchSchema", "solanaTokenMarketDataSchema"}

\* numeric parse of a raw tag text; a failed parse falls back to the declared
\* default, and the search schema's declaration is not among the sources, so
\* the fallback leaves the field unset
ParseNumber(raw) ==
  IF raw = Some("3") THEN Some(3)
  ELSE IF raw = Some("7") THEN Some(7)
  ELSE IF raw = Some("0") THEN Some(0)
  ELSE None

NoToolInvocation == [tool |-> "", parameters |-> None]

parseToolCallXml(txt, schema) ==
  IF txt.markup # "ok" \/ txt.tool = "" THEN NoToolInvocation
  ELSE IF schema = "none" \/ ~txt.hasParams
    THEN [tool |-> txt.tool, parameters |-> None]
  ELSE IF schema = "searchSchema"
    THEN IF txt.fields.query = None
           THEN [tool |-> txt.tool, parameters |-> None]
           ELSE [tool |-> txt.tool,
                 parameters |-> Some([NoFields EXCEPT
                   !.query = txt.fields.query,
                   !.max_results = ParseNumber(txt.fields.max_results),
                   !.search_depth = txt.fields.search_depth])]
  ELSE IF ~TruthyStr(txt.fields.tokenSymbol)
            /\ ~TruthyStr(txt.fields.tokenMintAddress)
           THEN [tool |-> txt.tool, parameters |-> None]
           ELSE [tool |-> txt.tool,
                 parameters |-> Some([NoFields EXCEPT
                   !.tokenSymbol = txt.fields.tokenSymbol,
                   !.tokenMintAddress = txt.fields.tokenMintAddress])]

\* toolCall.parameters?.f
ParamField(tc, f) ==
  IF tc.parameters = None THEN None ELSE tc.parameters[1][f]

----------------------------------------------------------------------------
(* getSolanaTokenMarketDataTool, lib/tools/solanaTokenMarketData.ts *)

FetchOutcomes == {"ok", "http500", "neterr"}

\* what the providers and the environment answer during one execute call
MarketEnvs ==
  [birdeyeKey : BOOLEAN,
   price : FetchOutcomes, priceValue : Opt({0, 5}),
   overview : FetchOutcomes,
   solscan : FetchOutcomes, supply : Opt({0, 1000})]

NoBirdeye == [price |-> None, source |-> None, url |-> None, error |-> None]
NoSolscan ==
  [circulatingSupply |-> None, totalSupply |-> None, source |-> None,
   url |-> None, error |-> None]

\* e.message of the error a fetch or a !response.ok check raises
FetchErrorMessage(outcome, label) ==
  IF outcome = "http500" THEN label \o ": 500" ELSE "fetch failed"

\* the refinement of solanaTokenMarketDataSchema: data is accepted when
\* data.tokenSymbol || data.tokenMintAddress is truthy
SchemaRefinement(data) ==
  TruthyStr(data.tokenSymbol) \/ TruthyStr(data.tokenMintAddress)

\* mutant: the outcome of the overview request is not looked at
fetchBirdeyeData_OverviewIgnored(params, env) ==
  IF ~env.birdeyeKey
    THEN [data |-> [NoBirdeye EXCEPT
                      !.error = Some("Birdeye API key not configured."),
                      !.source = Some("Birdeye")],
          requests |-> <<>>]
  ELSE IF TruthyStr(params.tokenMintAddress)
    THEN IF env.price # "ok"
           THEN [data |-> [NoBirdeye EXCEPT
                   !.error = Some("Birdeye API fetch error: "
                     \o FetchErrorMessage(env.price,
                                          "Birdeye API error (price)")),
                   !.source = Some("Birdeye")],
                 requests |-> <<"birdeye/price">>]
         ELSE [data |-> [NoBirdeye EXCEPT
                   !.price = env.priceValue,
                   !.source = Some("Birdeye API"),
                   !.url = Some("https://birdeye.so/token/")],
               requests |-> <<"birdeye/price", "birdeye/overview">>]
  ELSE [data |-> [NoBirdeye EXCEPT
          !.error = Some("Birdeye: Mint address preferred for precise data."),
          !.source = Some("Birdeye")],
        requests |-> <<>>]

fetchBirdeyeData(params, env) ==
  IF ~env.birdeyeKey
    THEN [data |-> [NoBirdeye EXCEPT
                      !.error = Some("Birdeye API key not configured."),
                      !.source = Some("Birdeye")],
          requests |-> <<>>]
  ELSE IF TruthyStr(params.tokenMintAddress)
    THEN IF env.price # "ok"
           THEN [data |-> [NoBirdeye EXCEPT
                   !.error = Some("Birdeye API fetch error: "
                     \o FetchErrorMessage(env.price,
                                          "Birdeye API error (price)")),
                   !.source = Some("Birdeye")],
                 requests |-> <<"birdeye/price">>]
         ELSE IF env.overview # "ok"
           THEN [data |-> [NoBirdeye EXCEPT
                   !.error = Some("Birdeye API fetch error: "
                     \o FetchErrorMessage(env.overview,
                                          "Birdeye API error (overview)")),
                   !.source = Some("Birdeye")],
                 requests |-> <<"birdeye/price", "birdeye/overview">>]
         ELSE [data |-> [NoBirdeye EXCEPT
                   !.price = env.priceValue,
                   !.source = Some("Birdeye API"),
                   !.url = Some("https://birdeye.so/token/")],
               requests |-> <<"birdeye/price", "birdeye/overview">>]
  ELSE [data |-> [NoBirdeye EXCEPT
          !.error = Some("Birdeye: Mint address preferred for precise data."),
          !.source = Some("Birdeye")],
        requests |-> <<>>]

\* mutant: fetchSolscanData looks the token up by identifier, mint or symbol
fetchSolscanData_BySymbol(params, env) ==
  IF TruthyStr(params.tokenMintAddress) \/ TruthyStr(params.tokenSymbol)
    THEN IF env.solscan # "ok"
           THEN [data |-> [NoSolscan EXCEPT
                   !.error = Some("Solscan API fetch error: "
                     \o FetchErrorMessage(env.solscan, "Solscan API error")),
                   !.source = Some("Solscan")],
                 requests |-> <<"solscan/meta">>]
           ELSE [data |-> [NoSolscan EXCEPT
                   !.circulatingSupply = env.supply,
                   !.totalSupply = env.supply,
                   !.source = Some("Solscan API"),
                   !.url = Some("https://solscan.io/token/")],
                 requests |-> <<"solscan/meta">>]
  ELSE [data |-> [NoSolscan EXCEPT
          !.error = Some("Solscan: Mint address required for precise data."),
          !.source = Some("Solscan")],
        requests |-> <<>>]

fetchSolscanData(params, env) ==
  IF TruthyStr(params.tokenMintAddress)
    THEN IF env.solscan # "ok"
           THEN [data |-> [NoSolscan EXCEPT
                   !.error = Some("Solscan API fetch error: "
                     \o FetchErrorMessage(env.solscan, "Solscan API error")),
                   !.source = Some("Solscan")],
                 requests |-> <<"solscan/meta">>]
           ELSE [data |-> [NoSolscan EXCEPT
                   !.circulatingSupply = env.supply,
                   !.totalSupply = env.supply,
                   !.source = Some("Solscan API"),
                   !.url = Some("https://solscan.io/token/")],
                 requests |-> <<"solscan/meta">>]
  ELSE [data |-> [NoSolscan EXCEPT
          !.error = Some("Solscan: Mint address required for precise data."),
          !.source = Some("Solscan")],
        requests |-> <<>>]

\* mutant: only the Solscan error is collected
CollectErrors_SolscanOnly(birdeyeResult, solscanResult) ==
  IF TruthyStr(solscanResult.error) THEN <<solscanResult.error[1]>>
  ELSE <<>>

\* results.errors after both pushes
CollectErrors(birdeyeResult, solscanResult) ==
  (IF TruthyStr(birdeyeResult.error) THEN <<birdeyeResult.error[1]>>
   ELSE <<>>)
  \o (IF TruthyStr(solscanResult.error) THEN <<solscanResult.error[1]>>
      ELSE <<>>)

\* mutant: the number of errors is not looked at
AggregateFailed_NoErrorCount(birdeyeResult, solscanResult, errors) ==
  /\ ~TruthyNum(birdeyeResult.price)
  /\ ~TruthyNum(solscanResult.circulatingSupply)

\* mutant: one error is enough
AggregateFailed_AnyError(birdeyeResult, solscanResult, errors) ==
  /\ ~TruthyNum(birdeyeResult.price)
  /\ ~TruthyNum(solscanResult.circulatingSupply)
  /\ Len(errors) > 0

\* the condition of the wholesale failure return
AggregateFailed(birdeyeResult, solscanResult, errors) ==
  /\ ~TruthyNum(birdeyeResult.price)
  /\ ~TruthyNum(solscanResult.circulatingSupply)
  /\ Len(errors) > 1

\* mutant: execute returns as soon as Birdeye has failed
MarketExecute_EarlyReturn(params, env) ==
  IF ~TruthyStr(params.tokenSymbol) /\ ~TruthyStr(params.tokenMintAddress)
    THEN [value |-> [error |->
            <<"Tool execution error: Token symbol or mint address is required.">>],
          requests |-> <<>>,
          birdeye |-> None, solscan |-> None,
          trace |-> <<"return">>]
  ELSE
    LET b == fetchBirdeyeData(params, env)
        s == fetchSolscanData(params, env)
        errors == CollectErrors(b.data, s.data)
    IN  IF TruthyStr(b.data.error)
          THEN [value |-> [error |->
                  <<"Failed to fetch significant market data. Errors: ",
                    b.data.error[1]>>],
                requests |-> b.requests,
                birdeye |-> Some(b.data), solscan |-> None,
                trace |-> <<"fetchBirdeyeData", "return">>]
          ELSE [value |-> [tokenSymbol |-> params.tokenSymbol,
                           tokenMintAddress |-> params.tokenMintAddress,
                           errors |-> errors,
                           birdeye |-> b.data,
                           solscan |-> s.data,
                           lastUpdated |-> "now"],
                requests |-> b.requests \o s.requests,
                birdeye |-> Some(b.data), solscan |-> Some(s.data),
                trace |-> <<"fetchBirdeyeData", "fetchSolscanData",
                            "lastUpdated", "return">>]

\* mutant: execute without its identifier check
MarketExecute_NoIdentifierCheck(params, env) ==
  LET b == fetchBirdeyeData(params, env)
      s == fetchSolscanData(params, env)
      errors == CollectErrors(b.data, s.data)
  IN  IF AggregateFailed(b.data, s.data, errors)
        THEN [value |-> [error |->
                <<"Failed to fetch significant market data. Errors: ">>
                  \o errors],
              requests |-> b.requests \o s.requests,
              birdeye |-> Some(b.data), solscan |-> Some(s.data),
              trace |-> <<"fetchBirdeyeData", "fetchSolscanData",
                          "lastUpdated", "return">>]
        ELSE [value |-> [tokenSymbol |-> params.tokenSymbol,
                         tokenMintAddress |-> params.tokenMintAddress,
                         errors |-> errors,
                         birdeye |-> b.data,
                         solscan |-> s.data,
                         lastUpdated |-> "now"],
              requests |-> b.requests \o s.requests,
              birdeye |-> Some(b.data), solscan |-> Some(s.data),
              trace |-> <<"fetchBirdeyeData", "fetchSolscanData",
                          "lastUpdated", "return">>]

\* getSolanaTokenMarketDataTool.execute: the value it returns, the HTTP
\* requests it made, what each fetcher returned, and the order of its steps
MarketExecute(params, env) ==
  IF ~TruthyStr(params.tokenSymbol) /\ ~TruthyStr(params.tokenMintAddress)
    THEN [value |-> [error |->
            <<"Tool execution error: Token symbol or mint address is required.">>],
          requests |-> <<>>,
          birdeye |-> None, solscan |-> None,
          trace |-> <<"return">>]
  ELSE
    LET b == fetchBirdeyeData(params, env)
        s == fetchSolscanData(params, env)
        errors == CollectErrors(b.data, s.data)
    IN  IF AggregateFailed(b.data, s.data, errors)
          THEN [value |-> [error |->
                  <<"Failed to fetch significant market data. Errors: ">>
                    \o errors],
                requests |-> b.requests \o s.requests,
                birdeye |-> Some(b.data), solscan |-> Some(s.data),
                trace |-> <<"fetchBirdeyeData", "fetchSolscanData",
                            "lastUpdated", "return">>]
          ELSE [value |-> [tokenSymbol |-> params.tokenSymbol,
                           tokenMintAddress |-> params.tokenMintAddress,
                           errors |-> errors,
                           birdeye |-> b.data,
                           solscan |-> s.data,
                           lastUpdated |-> "now"],
                requests |-> b.requests \o s.requests,
                birdeye |-> Some(b.data), solscan |-> Some(s.data),
                trace |-> <<"fetchBirdeyeData", "fetchSolscanData",
                            "lastUpdated", "return">>]

----------------------------------------------------------------------------
(* TavilySearchProvider.search, lib/tools/search/providers/tavily.ts *)

\* ' '.repeat(n)
Spaces(n) == [i \in 1..n |-> " "]

\* a query is the sequence of its characters
Queries ==
  {<<>>, <<"s", "o", "l">>, <<"$", "J", "U", "P">>,
   <<"s", "o", "l", "a", "n">>, <<"s", "o", "l", "a", "n", "a">>,
   <<"N", "o", "s", "a", "n", "a", " ", "$", "N", "O", "S">>}

\* what api.tavily.com does with one search request
TavilyResponses ==
  [transport : {"ok", "neterr", "hang"},
   status : {200, 500},
   results : {"empty", "some"},
   images : {"missing", "empty", "some"}]

\* mutant: the padding is put in front of the query
FilledQuery_PadFront(query) ==
  IF Len(query) < 5 THEN Spaces(5 - Len(query)) \o query ELSE query

\* the padded query of the request body
FilledQuery(query) ==
  IF Len(query) < 5 THEN query \o Spaces(5 - Len(query)) ELSE query

\* search(query, maxResults, searchDepth) with the API key configured: the
\* request it sends and how the call ends
TavilySearch(query, maxResults, searchDepth, resp) ==
  LET request == [url |-> "https://api.tavily.com/search",
                  query |-> FilledQuery(query),
                  max_results |-> Max(maxResults, 5),
                  search_depth |-> searchDepth]
  IN  IF resp.transport = "hang"
        THEN [requests |-> <<request>>, kind |-> "pending",
              value |-> [error |-> <<>>]]
      ELSE IF resp.transport = "neterr"
        THEN [requests |-> <<request>>, kind |-> "thrown",
              value |-> [error |-> <<"fetch failed">>]]
      ELSE IF resp.status # 200
        THEN [requests |-> <<request>>, kind |-> "thrown",
              value |-> [error |-> <<"Tavily API error: 500">>]]
      ELSE IF resp.images = "missing"
        \* data.images.map on undefined: a TypeError
        THEN [requests |-> <<request>>, kind |-> "thrown",
              value |-> [error |-> <<"Cannot read properties of undefined">>]]
      ELSE [requests |-> <<request>>, kind |-> "returned",
            value |-> [results |-> resp.results, images |-> resp.images]]

----------------------------------------------------------------------------
(* retrieveTool, lib/tools/retrieve (src/unnamed/part_004) *)

CONTENT_CHARACTER_LIMIT == 10000

\* how far past the limit the longest page of the model goes
MaxExcess == 1

ContentLengths ==
  {0, 1, CONTENT_CHARACTER_LIMIT - 1, CONTENT_CHARACTER_LIMIT}
    \cup {CONTENT_CHARACTER_LIMIT + k : k \in 1..MaxExcess}

\* a piece of text: the characters start+1 .. start+len of a page
Content(n) == [origin |-> "page", start |-> 0, len |-> n]

\* mutant: the last limit characters are kept
SliceContent_Tail(c, limit) ==
  [c EXCEPT !.start = c.start + c.len - Min(c.len, limit),
            !.len = Min(c.len, limit)]

\* String.prototype.slice(0, limit)
SliceContent(c, limit) == [c EXCEPT !.len = Min(c.len, limit)]

\* what the retrieval backend does with one request and which backend the
\* environment selects; body says what the response body holds
RetrieveEnvs ==
  [jinaKey : BOOLEAN,
   transport : {"ok", "neterr", "hang"},
   status : {200, 500},
   body : {"notjson", "nodata", "emptydata", "nocontent", "content"},
   contentLen : ContentLengths]

\* the body of both fetchers: null (None) or the formatted results; a hung
\* fetch never gives a value
FetchPage(env, limit) ==
  IF env.transport # "ok" \/ env.body # "content"
    THEN None
    ELSE Some([content |-> SliceContent(Content(env.contentLen), limit)])

fetchJinaReaderData(url, env) ==
  [requests |-> <<[url |-> "https://r.jina.ai/", target |-> url]>>,
   pending |-> env.transport = "hang",
   results |-> FetchPage(env, CONTENT_CHARACTER_LIMIT)]

fetchTavilyExtractData(url, env) ==
  [requests |-> <<[url |-> "https://api.tavily.com/extract", target |-> url]>>,
   pending |-> env.transport = "hang",
   results |-> FetchPage(env, CONTENT_CHARACTER_LIMIT)]

\* retrieveTool.execute({ url })
RetrieveExecute(url, env) ==
  LET r == IF env.jinaKey THEN fetchJinaReaderData(url, env)
           ELSE fetchTavilyExtractData(url, env)
      trace == IF env.jinaKey THEN <<"fetchJinaReaderData">>
               ELSE <<"fetchTavilyExtractData">>
  IN  IF r.pending
        THEN [requests |-> r.requests, trace |-> trace, kind |-> "pending",
              value |-> [error |-> <<>>]]
      ELSE IF r.results = None
        THEN [requests |-> r.requests, trace |-> trace, kind |-> "returned",
              value |-> [error |->
                <<"Failed to retrieve content from the URL or no content found.">>]]
      ELSE [requests |-> r.requests, trace |-> trace, kind |-> "returned",
            value |-> r.results[1]]

----------------------------------------------------------------------------
(* executeToolCall, lib/streaming/tool-execution: its pure parts *)

Versions == {1, 2}

\* mutant: the searchMode check is dropped
ToolsDisabled_Dropped(sm) == FALSE

\* if (!searchMode) return the empty result
ToolsDisabled(sm) == ~sm

EmptyResult == [toolCallDataAnnotation |-> None, toolCallMessages |-> <<>>]

\* mutant: the selection call is given the whole conversation
SelectionWindow_FullHistory(ver, msgs) == msgs

\* messages: coreMessages.slice(...) of the generateText call
SelectionWindow(ver, msgs) ==
  IF ver = 1 THEN JsSlice(msgs, -3)
  ELSE JsSlice(msgs, -Min(Len(msgs), 5))

\* mutant: the default does not depend on the model id
defaultMaxResultsSearch_AnyModel(ver, m) == IF ver = 1 THEN 10 ELSE 7

\* defaultMaxResults / defaultMaxResultsSearch
defaultMaxResultsSearch(ver, m) ==
  IF IncludesOllama(m) THEN 5 ELSE IF ver = 1 THEN 10 ELSE 7

\* mutant: one parse with searchSchema, whatever the tool named
ParseSelection_SearchSchemaOnly(ver, txt) ==
  [toolCall |-> Some(parseToolCallXml(txt, "searchSchema")),
   calls |-> <<"searchSchema">>]

\* the parse step: the invocation and the schema of every parser call made
ParseSelection(ver, txt) ==
  IF ver = 1
    THEN [toolCall |-> Some(parseToolCallXml(txt, "searchSchema")),
          calls |-> <<"searchSchema">>]
  ELSE
    LET parsedXmlForToolName == parseToolCallXml(txt, "none")
        chosenToolName == parsedXmlForToolName.tool
    IN  IF chosenToolName = "search"
          THEN [toolCall |-> Some(parseToolCallXml(txt, "searchSchema")),
                calls |-> <<"none", "searchSchema">>]
        ELSE IF chosenToolName = "getSolanaTokenMarketDataTool"
          THEN [toolCall |->
                  Some(parseToolCallXml(txt, "solanaTokenMarketDataSchema")),
                calls |-> <<"none", "solanaTokenMarketDataSchema">>]
        ELSE IF chosenToolName # ""
          THEN [toolCall |-> Some(parsedXmlForToolName), calls |-> <<"none">>]
        ELSE [toolCall |-> None, calls |-> <<"none">>]

\* mutant: only the null check, the empty tool name passes
NoToolSelected_NullOnly(tc) == tc = None

\* if (!toolCall || !toolCall.tool)
NoToolSelected(tc) == tc = None \/ tc[1].tool = ""

\* mutant: an empty query string counts as a query
SearchQueryMissing_UndefinedOnly(tc) == ParamField(tc, "query") = None

\* if (!toolCall.parameters?.query)
SearchQueryMissing(tc) == ~TruthyStr(ParamField(tc, "query"))

\* if (!toolCall.parameters?.tokenSymbol && !toolCall.parameters?.tokenMintAddress)
MarketIdentifierMissing(tc) ==
  /\ ~TruthyStr(ParamField(tc, "tokenSymbol"))
  /\ ~TruthyStr(ParamField(tc, "tokenMintAddress"))

\* mutant: a name no branch tests for is handled by the search branch
DispatchBranch_SearchByDefault(ver, tool) ==
  IF ver = 2 /\ tool = "getSolanaTokenMarketDataTool" THEN "market"
  ELSE "search"

\* which branch of the if / else-if chain inside the try block runs
DispatchBranch(ver, tool) ==
  IF tool = "search" THEN "search"
  ELSE IF ver = 2 /\ tool = "getSolanaTokenMarketDataTool" THEN "market"
  ELSE "unknown"

\* arguments of the executeSearchViaApi call
SearchArgs(ver, m, tc) ==
  [query |-> tc.parameters[1].query[1],
   max_results |-> OrElseNum(tc.parameters[1].max_results,
                             defaultMaxResultsSearch(ver, m)),
   search_depth |-> OrElseStr(tc.parameters[1].search_depth, "basic"),
   include_domains |-> <<>>,
   exclude_domains |-> <<>>]

\* what executeSearchViaApi (lib/tools/search) can do: return or throw
SearchOutcomes ==
  {[ok |-> TRUE, value |-> [results |-> "some", images |-> "some"],
    message |-> ""],
   [ok |-> TRUE, value |-> [results |-> "empty", images |-> "empty"],
    message |-> ""],
   [ok |-> FALSE, value |-> [results |-> "", images |-> ""],
    message |-> "Tavily API error: 500"],
   [ok |-> FALSE, value |-> [results |-> "", images |-> ""],
    message |-> "fetch failed"]}

SearchQueryMissingJson == ErrorJson(<<"Search query missing.">>)

MarketIdentifierMissingJson ==
  ErrorJson(<<"Token symbol or mint address missing for market data.">>)

UnknownToolJson(ver, tool) ==
  IF ver = 1 THEN ErrorJson(<<"Tool '", tool, "' is not implemented.">>)
  ELSE ErrorJson(<<"Tool '", tool, "' is not implemented or recognized.">>)

\* mutant: the error message is left out of the payload
FailedToExecuteJson_NoMessage(tool, message) ==
  ErrorJson(<<"Failed to execute tool ", tool>>)

\* toolResultJson set by the catch block
FailedToExecuteJson(tool, message) ==
  ErrorJson(<<"Failed to execute tool ", tool, ": ", message>>)

\* the three progress events
CallEvent(id, tool, args) ==
  [via |-> "writeData", state |-> "call", toolCallId |-> id,
   toolName |-> tool, args |-> args, result |-> None]

\* mutant: the result event is written under a newly generated id
ResultEvent_FreshId(id, tool, args, result) ==
  [via |-> "writeMessageAnnotation", state |-> "result",
   toolCallId |-> id + 1, toolName |-> tool, args |-> args,
   result |-> result]

ResultEvent(id, tool, args, result) ==
  [via |-> "writeMessageAnnotation", state |-> "result", toolCallId |-> id,
   toolName |-> tool, args |-> args, result |-> result]

ErrorEvent(id, tool, args, result) ==
  [via |-> "writeMessageAnnotation", state |-> "error", toolCallId |-> id,
   toolName |-> tool, args |-> args, result |-> result]

\* mutant: the data annotation is built without the serialized args
ToolCallDataAnnotation_NoArgs(id, tool, args, result) ==
  [role |-> "data", type |-> "tool_call", toolCallId |-> id,
   toolName |-> tool, args |-> None, result |-> result]

ToolCallDataAnnotation(id, tool, args, result) ==
  [role |-> "data", type |-> "tool_call", toolCallId |-> id,
   toolName |-> tool, args |-> args, result |-> result]

\* mutant: the instruction turn is put before the tool output turn
ToolCallMessages_Swapped(ver, tool, result) ==
  << [role |-> "user",
      content |-> [template |-> IF ver = 1
                     THEN "Based on the tool output ... cite sources"
                     ELSE "... led to the use of the '${tool}' tool ...",
                   tool |-> IF ver = 1 THEN None ELSE Some(tool),
                   result |-> None]],
     [role |-> "assistant",
      content |-> [template |-> "[Tool Used: ${tool}] Output:${result}",
                   tool |-> Some(tool), result |-> result]] >>

\* the two synthesized turns; the content templates are kept as their name
\* and the values interpolated into them
ToolCallMessages(ver, tool, result) ==
  IF ver = 1
    THEN << [role |-> "assistant",
             content |-> [template |-> "[Tool Used: ${tool}] Output:${result}",
                          tool |-> Some(tool), result |-> result]],
            [role |-> "user",
             content |-> [template |-> "Based on the tool output ... cite sources",
                          tool |-> None, result |-> None]] >>
    ELSE << [role |-> "assistant",
             content |-> [template |-> "[Tool Used: ${tool}] Output:${result}",
                          tool |-> Some(tool), result |-> result]],
            [role |-> "user",
             content |-> [template |-> "... led to the use of the '${tool}' tool ...",
                          tool |-> Some(tool), result |-> None]] >>

----------------------------------------------------------------------------
(* executeToolCall: its steps *)

finalToolName == toolCall[1].tool
argsJson == JSONstringify(toolCall[1].parameters)

\* outcomes of one dataStream write: delivered, or (faulty sink only) thrown
WriteOutcomes == IF sinkFaulty THEN BOOLEAN ELSE {TRUE}

Args == <<version, searchMode, model, coreMessages, sinkFaulty>>

InitLocals ==
  /\ pc = "entry"
  /\ selectionCalls = <<>>
  /\ text = None
  /\ parserCalls = <<>>
  /\ toolCall = None
  /\ toolCallId = None
  /\ toolResultJson = None
  /\ toolError = None
  /\ dataStream = <<>>
  /\ adapterCalls = <<>>
  /\ httpLog = <<>>
  /\ marketCall = None
  /\ adapterRun = None
  /\ returned = None
  /\ thrown = None

InitArgs ==
  /\ version \in Versions
  /\ searchMode \in BOOLEAN
  /\ model \in Models
  /\ coreMessages \in Conversations

Init == InitArgs /\ sinkFaulty = FALSE /\ InitLocals

InitFaultySink == InitArgs /\ sinkFaulty = TRUE /\ InitLocals

CheckSearchMode ==
  /\ pc = "entry"
  /\ IF ToolsDisabled(searchMode)
       THEN returned' = Some(EmptyResult) /\ pc' = "done"
       ELSE returned' = returned /\ pc' = "selecting"
  /\ UNCHANGED <<Args, selectionCalls, text, parserCalls, toolCall,
                 toolCallId, toolResultJson, toolError, dataStream,
                 adapterCalls, httpLog, marketCall, adapterRun, thrown>>

\* await generateText(...): a completion, or a provider / transport error
\* that is not caught anywhere in executeToolCall
GenerateText ==
  /\ pc = "selecting"
  /\ selectionCalls' =
       Append(selectionCalls, SelectionWindow(version, coreMessages))
  /\ \/ \E t \in Completions :
          text' = Some(t) /\ pc' = "parsing" /\ thrown' = thrown
     \/ /\ thrown' = Some([source |-> "generateText",
                           message |-> "provider error"])
        /\ pc' = "thrown"
        /\ text' = text
  /\ UNCHANGED <<Args, parserCalls, toolCall, toolCallId, toolResultJson,
                 toolError, dataStream, adapterCalls, httpLog, marketCall, adapterRun, returned>>

ParseToolCall ==
  /\ pc = "parsing"
  /\ LET p == ParseSelection(version, text[1])
     IN  /\ parserCalls' = p.calls
         /\ toolCall' = p.toolCall
         /\ IF NoToolSelected(p.toolCall)
              THEN /\ returned' = Some(EmptyResult)
                   /\ pc' = "done"
                   /\ toolCallId' = toolCallId
              ELSE /\ \E id \in 1..NumIds : toolCallId' = Some(id)
                   /\ pc' = "writeCall"
                   /\ returned' = returned
  /\ UNCHANGED <<Args, selectionCalls, text, toolResultJson, toolError,
                 dataStream, adapterCalls, httpLog, marketCall, adapterRun, thrown>>

\* dataStream.writeData({ state: 'call', ... }), first statement of the try
WriteCallEvent ==
  /\ pc = "writeCall"
  /\ \E delivered \in WriteOutcomes :
       IF delivered
         THEN /\ dataStream' = Append(dataStream,
                   CallEvent(toolCallId[1], finalToolName, argsJson))
              /\ pc' = "dispatch"
              /\ toolError' = toolError
         ELSE /\ toolError' = Some("stream write failed")
              /\ pc' = "catch"
              /\ dataStream' = dataStream
  /\ UNCHANGED <<Args, selectionCalls, text, parserCalls, toolCall,
                 toolCallId, toolResultJson, adapterCalls, httpLog, marketCall, adapterRun,
                 returned, thrown>>

\* mutant: a search that throws is tried again instead of being caught
DispatchSearch_Retry ==
  /\ DispatchBranch(version, finalToolName) = "search"
  /\ IF ~TruthyStr(ParamField(toolCall[1], "query"))
       THEN /\ toolResultJson' = SearchQueryMissingJson
            /\ pc' = "writeResult"
            /\ UNCHANGED <<adapterCalls, toolError>>
       ELSE /\ adapterCalls' = Append(adapterCalls,
                 [adapter |-> "executeSearchViaApi",
                  args |-> SearchArgs(version, model, toolCall[1])])
            /\ \E out \in SearchOutcomes :
                 IF out.ok
                   THEN /\ toolResultJson' = JSONstringify(Some(out.value))
                        /\ pc' = "writeResult"
                        /\ toolError' = toolError
                   ELSE /\ toolError' = toolError
                        /\ pc' = "dispatch"
                        /\ toolResultJson' = toolResultJson
  /\ UNCHANGED <<httpLog, marketCall>>

DispatchSearch ==
  /\ DispatchBranch(version, finalToolName) = "search"
  /\ IF SearchQueryMissing(toolCall[1])
       THEN /\ toolResultJson' = SearchQueryMissingJson
            /\ pc' = "writeResult"
            /\ UNCHANGED <<adapterCalls, toolError>>
     ELSE IF toolCall[1].parameters = None
       \* toolCall.parameters.query on undefined parameters: a TypeError
       THEN /\ toolError' = Some("Cannot read properties of undefined")
            /\ pc' = "catch"
            /\ UNCHANGED <<adapterCalls, toolResultJson>>
     ELSE /\ adapterCalls' = Append(adapterCalls,
               [adapter |-> "executeSearchViaApi",
                args |-> SearchArgs(version, model, toolCall[1])])
          /\ \E out \in SearchOutcomes :
               IF out.ok
                 THEN /\ toolResultJson' = JSONstringify(Some(out.value))
                      /\ pc' = "writeResult"
                      /\ toolError' = toolError
                 ELSE /\ toolError' = Some(out.message)
                      /\ pc' = "catch"
                      /\ toolResultJson' = toolResultJson
  /\ UNCHANGED <<httpLog, marketCall>>

DispatchMarketData ==
  /\ DispatchBranch(version, finalToolName) = "market"
  /\ IF MarketIdentifierMissing(toolCall[1])
       THEN /\ toolResultJson' = MarketIdentifierMissingJson
            /\ pc' = "writeResult"
            /\ UNCHANGED <<adapterCalls, toolError, httpLog, marketCall>>
     ELSE IF toolCall[1].parameters = None
       \* execute reads params.tokenSymbol of undefined: a TypeError
       THEN /\ adapterCalls' = Append(adapterCalls,
                 [adapter |-> "getSolanaTokenMarketDataTool.execute",
                  args |-> NoFields])
            /\ toolError' = Some("Cannot read properties of undefined")
            /\ pc' = "catch"
            /\ UNCHANGED <<toolResultJson, httpLog, marketCall>>
     ELSE \E env \in MarketEnvs :
            LET r == MarketExecute(toolCall[1].parameters[1], env)
            IN  /\ adapterCalls' = Append(adapterCalls,
                     [adapter |-> "getSolanaTokenMarketDataTool.execute",
                      args |-> toolCall[1].parameters[1]])
                /\ httpLog' = httpLog \o r.requests
                /\ marketCall' = Some([birdeye |-> r.birdeye,
                                       solscan |-> r.solscan,
                                       trace |-> r.trace])
                /\ toolResultJson' = JSONstringify(Some(r.value))
                /\ pc' = "writeResult"
                /\ toolError' = toolError

DispatchUnknown ==
  /\ DispatchBranch(version, finalToolName) = "unknown"
  /\ toolResultJson' = UnknownToolJson(version, finalToolName)
  /\ pc' = "writeResult"
  /\ UNCHANGED <<adapterCalls, toolError, httpLog, marketCall>>

\* No call of the pass carries a timeout or an abort signal: a provider that
\* accepts the request and never answers leaves the await pending for good.
\* generateText never settles.
GenerateTextPending ==
  /\ pc = "selecting"
  /\ selectionCalls' =
       Append(selectionCalls, SelectionWindow(version, coreMessages))
  /\ pc' = "awaiting"
  /\ UNCHANGED <<Args, text, parserCalls, toolCall, toolCallId,
                 toolResultJson, toolError, dataStream, adapterCalls, httpLog,
                 marketCall, adapterRun, returned, thrown>>

\* executeSearchViaApi never settles
SearchPending ==
  /\ pc = "dispatch"
  /\ DispatchBranch(version, finalToolName) = "search"
  /\ ~SearchQueryMissing(toolCall[1])
  /\ toolCall[1].parameters # None
  /\ adapterCalls' = Append(adapterCalls,
       [adapter |-> "executeSearchViaApi",
        args |-> SearchArgs(version, model, toolCall[1])])
  /\ pc' = "awaiting"
  /\ UNCHANGED <<Args, selectionCalls, text, parserCalls, toolCall,
                 toolCallId, toolResultJson, toolError, dataStream, httpLog,
                 marketCall, adapterRun, returned, thrown>>

\* the k-th request of getSolanaTokenMarketDataTool.execute never settles:
\* the requests before it were answered, the ones after it are never sent
MarketDataPending ==
  /\ pc = "dispatch"
  /\ DispatchBranch(version, finalToolName) = "market"
  /\ ~MarketIdentifierMissing(toolCall[1])
  /\ toolCall[1].parameters # None
  /\ \E env \in MarketEnvs :
       LET r == MarketExecute(toolCall[1].parameters[1], env)
       IN  \E k \in 1..Len(r.requests) :
             httpLog' = httpLog \o SubSeq(r.requests, 1, k)
  /\ adapterCalls' = Append(adapterCalls,
       [adapter |-> "getSolanaTokenMarketDataTool.execute",
        args |-> toolCall[1].parameters[1]])
  /\ pc' = "awaiting"
  /\ UNCHANGED <<Args, selectionCalls, text, parserCalls, toolCall,
                 toolCallId, toolResultJson, toolError, dataStream,
                 marketCall, adapterRun, returned, thrown>>

\* the if / else-if chain of the try block
DispatchTool ==
  /\ pc = "dispatch"
  /\ (DispatchSearch \/ DispatchMarketData \/ DispatchUnknown)
  /\ UNCHANGED <<Args, selectionCalls, text, parserCalls, toolCall,
                 toolCallId, dataStream, adapterRun, returned, thrown>>

\* dataStream.writeMessageAnnotation({ state: 'result', ... }), last
\* statement of the try
WriteResultEvent ==
  /\ pc = "writeResult"
  /\ \E delivered \in WriteOutcomes :
       IF delivered
         THEN /\ dataStream' = Append(dataStream,
                   ResultEvent(toolCallId[1], finalToolName, argsJson,
                               toolResultJson))
              /\ pc' = "synthesize"
              /\ toolError' = toolError
         ELSE /\ toolError' = Some("stream write failed")
              /\ pc' = "catch"
              /\ dataStream' = dataStream
  /\ UNCHANGED <<Args, selectionCalls, text, parserCalls, toolCall,
                 toolCallId, toolResultJson, adapterCalls, httpLog, marketCall, adapterRun,
                 returned, thrown>>

\* the catch block: overwrite the result, write the 'error' event; a throw
\* of that write is outside any try and leaves executeToolCall
CatchToolError ==
  /\ pc = "catch"
  /\ toolResultJson' = FailedToExecuteJson(finalToolName, toolError[1])
  /\ \E delivered \in WriteOutcomes :
       IF delivered
         THEN /\ dataStream' = Append(dataStream,
                   ErrorEvent(toolCallId[1], finalToolName, argsJson,
                              toolResultJson'))
              /\ pc' = "synthesize"
              /\ thrown' = thrown
         ELSE /\ thrown' = Some([source |-> "dataStream",
                                 message |-> "stream write failed"])
              /\ pc' = "thrown"
              /\ dataStream' = dataStream
  /\ UNCHANGED <<Args, selectionCalls, text, parserCalls, toolCall,
                 toolCallId, toolError, adapterCalls, httpLog, marketCall, adapterRun, returned>>

\* mutant: the two turns are also pushed onto the caller's coreMessages
ReturnSynthesized_Appends ==
  /\ pc = "synthesize"
  /\ returned' = Some(
       [toolCallDataAnnotation |->
          Some(ToolCallDataAnnotation(toolCallId[1], finalToolName, argsJson,
                                      toolResultJson)),
        toolCallMessages |->
          ToolCallMessages(version, finalToolName, toolResultJson)])
  /\ coreMessages' = coreMessages \o <<Len(coreMessages) + 1,
                                        Len(coreMessages) + 2>>
  /\ pc' = "done"
  /\ UNCHANGED <<version, searchMode, model, sinkFaulty, selectionCalls,
                 text, parserCalls, toolCall, toolCallId, toolResultJson,
                 toolError, dataStream, adapterCalls, httpLog, marketCall, adapterRun, thrown>>

\* build toolCallDataAnnotation and toolCallMessages and return them
ReturnSynthesized ==
  /\ pc = "synthesize"
  /\ returned' = Some(
       [toolCallDataAnnotation |->
          Some(ToolCallDataAnnotation(toolCallId[1], finalToolName, argsJson,
                                      toolResultJson)),
        toolCallMessages |->
          ToolCallMessages(version, finalToolName, toolResultJson)])
  /\ pc' = "done"
  /\ UNCHANGED <<Args, selectionCalls, text, parserCalls, toolCall,
                 toolCallId, toolResultJson, toolError, dataStream,
                 adapterCalls, httpLog, marketCall, adapterRun, thrown>>

Next ==
  \/ CheckSearchMode
  \/ GenerateText
  \/ ParseToolCall
  \/ WriteCallEvent
  \/ DispatchTool
  \/ WriteResultEvent
  \/ CatchToolError
  \/ ReturnSynthesized
  \/ GenerateTextPending
  \/ SearchPending
  \/ MarketDataPending

Spec == Init /\ [][Next]_vars

\* the same pass with a progress sink whose writes may throw
SpecFaultySink == InitFaultySink /\ [][Next]_vars

----------------------------------------------------------------------------
(* The adapters called on their own, one call per behaviour *)

InitAdapters ==
  /\ version = 2
  /\ searchMode = TRUE
  /\ model = "openai:gpt-4o"
  /\ coreMessages = <<>>
  /\ sinkFaulty = FALSE
  /\ InitLocals

OrchestratorVars ==
  <<Args, pc, selectionCalls, text, parserCalls, toolCall, toolCallId,
    toolResultJson, toolError, dataStream, adapterCalls, httpLog, marketCall,
    returned, thrown>>

RunTavilySearch ==
  /\ adapterRun = None
  /\ \E query \in Queries, maxResults \in {3, 7, 10},
        searchDepth \in {"basic", "advanced"}, resp \in TavilyResponses :
       LET r == TavilySearch(query, maxResults, searchDepth, resp)
       IN  adapterRun' = Some(
             [adapter |-> "TavilySearchProvider.search",
              input |-> [query |-> query, maxResults |-> maxResults,
                         searchDepth |-> searchDepth],
              env |-> resp,
              requests |-> r.requests, trace |-> <<"fetch">>,
              kind |-> r.kind, value |-> r.value])
  /\ UNCHANGED OrchestratorVars

RunRetrieve ==
  /\ adapterRun = None
  /\ \E env \in RetrieveEnvs :
       LET r == RetrieveExecute("https://nosana.io/whitepaper", env)
       IN  adapterRun' = Some(
             [adapter |-> "retrieveTool.execute",
              input |-> [url |-> "https://nosana.io/whitepaper"],
              env |-> env,
              requests |-> r.requests, trace |-> r.trace,
              kind |-> r.kind, value |-> r.value])
  /\ UNCHANGED OrchestratorVars

RunMarketData ==
  /\ adapterRun = None
  /\ \E s \in Opt({"", "$NOS"}), a \in Opt({"", "nosMint"}),
        env \in MarketEnvs :
       LET params == [NoFields EXCEPT !.tokenSymbol = s,
                                      !.tokenMintAddress = a]
           r == MarketExecute(params, env)
       IN  adapterRun' = Some(
             [adapter |-> "getSolanaTokenMarketDataTool.execute",
              input |-> params,
              env |-> env,
              requests |-> r.requests, trace |-> r.trace,
              kind |-> "returned", value |-> r.value,
              birdeye |-> r.birdeye, solscan |-> r.solscan])
  /\ UNCHANGED OrchestratorVars

NextAdapters == RunTavilySearch \/ RunRetrieve \/ RunMarketData

SpecAdapters == InitAdapters /\ [][NextAdapters]_vars

----------------------------------------------------------------------------
(* Vocabulary of the properties *)

Finished == pc \in {"done", "thrown"}

\* the pass got past the parse step with an invocation to execute
ToolSelected == toolCall # None /\ toolCall[1].tool # "" /\ pc # "parsing"

\* a serialized result that is a Failure: a JSON object with an error member
IsFailureJson(r) == r # None /\ "error" \in DOMAIN r[1].json

\* a string parameter of the parsed invocation is absent or empty
ParamAbsent(f) ==
  \/ toolCall[1].parameters = None
  \/ toolCall[1].parameters[1][f] = None
  \/ toolCall[1].parameters[1][f] = Some("")

\* the parsed invocation names a known tool and lacks its required parameter
MissingRequiredParameter ==
  /\ ToolSelected
  /\ \/ toolCall[1].tool = "search" /\ ParamAbsent("query")
     \/ /\ version = 2
        /\ toolCall[1].tool = "getSolanaTokenMarketDataTool"
        /\ ParamAbsent("tokenSymbol")
        /\ ParamAbsent("tokenMintAddress")

EventStates == [i \in 1..Len(dataStream) |-> dataStream[i].state]

\* C1: a pass whose invocation misses a required parameter never invokes an
\* adapter, does not throw, and returns a Failure result
C1_MissingParameterNoAdapter ==
  MissingRequiredParameter =>
    /\ adapterCalls = <<>>
    /\ httpLog = <<>>
    /\ pc # "thrown"
    /\ pc = "done" =>
         /\ returned # None
         /\ IsFailureJson(returned[1].toolCallDataAnnotation[1].result)
         /\ IsFailureJson(returned[1].toolCallMessages[1].content.result)

C1_Witness ==
  /\ MissingRequiredParameter
  /\ pc = "done"
  /\ version = 2
  /\ toolCall[1].tool = "getSolanaTokenMarketDataTool"

\* C2 (as claimed): a pass whose invocation misses a required parameter
\* emits an 'error' progress event, not a 'result' one
C2_MissingParameterErrorEvent ==
  (MissingRequiredParameter /\ pc = "done") =>
    /\ \E i \in 1..Len(dataStream) : dataStream[i].state = "error"
    /\ \A i \in 1..Len(dataStream) : dataStream[i].state # "result"

\* C3: when no tool was parsed (no invocation, or an empty tool name, as for
\* the completion <tool_call><tool></tool></tool_call>) the pass returns the
\* empty result, writes no progress event and calls no adapter
C3_NoToolEmptyResult ==
  /\ (text # None /\ pc # "parsing"
        /\ (toolCall = None \/ toolCall[1].tool = "")) =>
       /\ pc = "done"
       /\ returned = Some([toolCallDataAnnotation |-> None,
                           toolCallMessages |-> <<>>])
       /\ dataStream = <<>>
       /\ adapterCalls = <<>>
  /\ (text # None /\ pc # "parsing"
        /\ text[1].markup = "ok" /\ text[1].tool = "") =>
       (toolCall = None \/ toolCall[1].tool = "")

C3_Witness ==
  /\ pc = "done"
  /\ text # None /\ text[1].markup = "ok" /\ text[1].tool = ""
  /\ returned # None /\ returned[1].toolCallMessages = <<>>

\* C4: with searchMode false the pass ends at once with the empty result:
\* no generateText call, no parser call, no adapter call, no progress event
C4_DisabledShortCircuit ==
  (~searchMode /\ pc # "entry") =>
    /\ pc = "done"
    /\ returned = Some([toolCallDataAnnotation |-> None,
                        toolCallMessages |-> <<>>])
    /\ selectionCalls = <<>>
    /\ parserCalls = <<>>
    /\ adapterCalls = <<>>
    /\ dataStream = <<>>

C4_Witness == ~searchMode /\ pc = "done" /\ returned # None

\* C5 (as claimed): a pass that parsed a tool name and returns normally
\* yields an assistant turn with the serialized result and then a user turn
\* whose instruction has nothing interpolated into it (the same text whatever
\* the tool and the result); every other returning pass yields no turn
C5_FixedInstruction ==
  (pc = "done" /\ returned # None) =>
    LET msgs == returned[1].toolCallMessages
    IN  IF toolCall # None /\ toolCall[1].tool # ""
          THEN /\ Len(msgs) = 2
               /\ msgs[1].role = "assistant"
               /\ msgs[1].content.result = toolResultJson
               /\ msgs[2].role = "user"
               /\ msgs[2].content.tool = None
               /\ msgs[2].content.result = None
          ELSE msgs = <<>>

\* C5 (amended): as above, but the instruction of the second version names
\* the tool chosen; it never depends on the result, and in the first version
\* it is one text for every tool
C5_TwoTurnsInstructionPerTool ==
  (pc = "done" /\ returned # None) =>
    LET msgs == returned[1].toolCallMessages
    IN  IF toolCall # None /\ toolCall[1].tool # ""
          THEN /\ Len(msgs) = 2
               /\ msgs[1].role = "assistant"
               /\ msgs[1].content.tool = Some(toolCall[1].tool)
               /\ msgs[1].content.result = toolResultJson
               /\ toolResultJson # None
               /\ msgs[2].role = "user"
               /\ msgs[2].content.result = None
               /\ msgs[2].content.tool =
                    (IF version = 1 THEN None ELSE Some(toolCall[1].tool))
               /\ msgs[2].content.template =
                    (IF version = 1
                       THEN "Based on the tool output ... cite sources"
                       ELSE "... led to the use of the '${tool}' tool ...")
          ELSE msgs = <<>>

C5_Witness ==
  /\ pc = "done" /\ returned # None /\ version = 2
  /\ Len(returned[1].toolCallMessages) = 2
  /\ returned[1].toolCallMessages[2].content.tool
       = Some("getSolanaTokenMarketDataTool")
  /\ adapterCalls # <<>>

\* C6: the sink receives one 'call' event and then one terminal event
\* ('result' or 'error') with the same toolCallId; a terminal event never
\* comes without the earlier 'call'; the 'call' event is in the sink, alone,
\* when an adapter has just been dispatched
C6_CallThenTerminal ==
  /\ \A i \in 1..Len(dataStream) :
       dataStream[i].state \in {"result", "error"} =>
         \E j \in 1..(i - 1) :
           /\ dataStream[j].state = "call"
           /\ dataStream[j].toolCallId = dataStream[i].toolCallId
  /\ Cardinality({i \in 1..Len(dataStream) : dataStream[i].state = "call"})
       <= 1
  /\ Cardinality({i \in 1..Len(dataStream) : dataStream[i].state # "call"})
       <= 1
  /\ (adapterCalls # <<>> /\ pc \in {"writeResult", "catch"}) =>
       EventStates = <<"call">>
  /\ (ToolSelected /\ pc = "done") =>
       /\ Len(dataStream) = 2
       /\ dataStream[1].state = "call"
       /\ dataStream[2].state \in {"result", "error"}

C6_Witness ==
  /\ pc = "done"
  /\ EventStates = <<"call", "error">>
  /\ adapterCalls # <<>>

C8_SelectionFailureIsNoTool ==
  (selectionCalls # <<>> /\ text = None /\ pc \notin {"selecting", "awaiting"}) =>
    /\ thrown = None
    /\ returned = Some([toolCallDataAnnotation |-> None,
                        toolCallMessages |-> <<>>])
    /\ adapterCalls = <<>>

\* C9 (as claimed): a dataStream write that throws never aborts the pass:
\* nothing escapes because of the sink, and a pass that selected a tool ends
\* by returning its two synthesized turns
C9_SinkFailureTolerated ==
  /\ thrown # None => thrown[1].source # "dataStream"
  /\ (ToolSelected /\ Finished) =>
       /\ returned # None
       /\ Len(returned[1].toolCallMessages) = 2

\* C10: one pass calls generateText at most once, dispatches at most one
\* adapter, at most once, and returns at most one pair of synthesized turns
C10_AtMostOneToolCall ==
  /\ Len(selectionCalls) <= 1
  /\ Len(adapterCalls) <= 1
  /\ Len(parserCalls) <= 2
  /\ returned # None => Len(returned[1].toolCallMessages) \in {0, 2}
  /\ adapterCalls # <<>> =>
       adapterCalls[1].adapter =
         (IF toolCall[1].tool = "search" THEN "executeSearchViaApi"
          ELSE "getSolanaTokenMarketDataTool.execute")

C10_Witness ==
  /\ pc = "done"
  /\ Len(selectionCalls) = 1
  /\ Len(adapterCalls) = 1
  /\ returned # None /\ Len(returned[1].toolCallMessages) = 2

\* C11: executeToolCall never changes the coreMessages it was given: no step
\* of any path (disabled, no tool, validation failure, adapter success,
\* adapter exception) alters its length or its elements; the synthesized
\* turns are only returned
C11_ConversationReadOnly == [][coreMessages' = coreMessages]_vars

C11_Witness ==
  /\ pc = "done"
  /\ Len(coreMessages) = MaxConv
  /\ returned # None /\ Len(returned[1].toolCallMessages) = 2
  /\ toolError # None

----------------------------------------------------------------------------
(* Vocabulary of the market-data properties *)

\* the dispatched execute call got past its identifier check and returned
MarketReturned == marketCall # None /\ marketCall[1].birdeye # None

BirdeyeResult == marketCall[1].birdeye[1]
SolscanResult == marketCall[1].solscan[1]
BirdeyeFailed == BirdeyeResult.error # None
SolscanFailed == SolscanResult.error # None

\* no Birdeye price and no Solscan circulating supply
NoPrimaryField ==
  /\ BirdeyeResult.price \in {None, Some(0)}
  /\ SolscanResult.circulatingSupply \in {None, Some(0)}

\* the value execute returned
MarketValue == toolResultJson[1].json

WholesaleFailure == DOMAIN MarketValue = {"error"}

LastEvent == dataStream[Len(dataStream)]

\* C12: execute returns the wholesale failure ({error} only) exactly when
\* both sources failed and there is neither a Birdeye price nor a Solscan
\* circulating supply; otherwise it returns the aggregate with both sources'
\* data, the per-source errors and lastUpdated
C12_WholesaleFailureIff ==
  MarketReturned =>
    /\ WholesaleFailure <=> (BirdeyeFailed /\ SolscanFailed /\ NoPrimaryField)
    /\ ~WholesaleFailure =>
         /\ DOMAIN MarketValue = {"tokenSymbol", "tokenMintAddress", "errors",
                                  "birdeye", "solscan", "lastUpdated"}
         /\ MarketValue.birdeye = BirdeyeResult
         /\ MarketValue.solscan = SolscanResult
         /\ MarketValue.lastUpdated = "now"
         /\ Len(MarketValue.errors) =
              (IF BirdeyeFailed THEN 1 ELSE 0)
                + (IF SolscanFailed THEN 1 ELSE 0)

C12_Witness ==
  /\ MarketReturned
  /\ ~WholesaleFailure
  /\ ~BirdeyeFailed /\ ~SolscanFailed
  /\ NoPrimaryField
  /\ pc = "done"

\* C13: when exactly one of the two sources fails, the aggregate holds the
\* other source's data and exactly one error string, that of the failed
\* source, and the pass ends with a 'result' event, not an 'error' one
C13_OneSourceFails ==
  (MarketReturned /\ (BirdeyeFailed # SolscanFailed)) =>
    /\ ~WholesaleFailure
    /\ MarketValue.birdeye = BirdeyeResult
    /\ MarketValue.solscan = SolscanResult
    /\ MarketValue.errors =
         (IF BirdeyeFailed THEN <<BirdeyeResult.error[1]>>
          ELSE <<SolscanResult.error[1]>>)
    /\ pc = "done" => EventStates = <<"call", "result">>

C13_Witness ==
  /\ MarketReturned
  /\ BirdeyeFailed /\ ~SolscanFailed
  /\ SolscanResult.circulatingSupply = None
  /\ pc = "done"

\* C14: when both sources fail and there is no price and no supply, the
\* failure is one error payload, and the tool-output turn carries both the
\* Birdeye and the Solscan error message
C14_AllErrorsInFailureTurn ==
  (MarketReturned /\ BirdeyeFailed /\ SolscanFailed /\ NoPrimaryField) =>
    /\ MarketValue =
         [error |-> <<"Failed to fetch significant market data. Errors: ",
                      BirdeyeResult.error[1], SolscanResult.error[1]>>]
    /\ pc = "done" =>
         /\ returned[1].toolCallMessages[1].role = "assistant"
         /\ returned[1].toolCallMessages[1].content.result
              = Some([json |-> MarketValue])

C14_Witness ==
  /\ MarketReturned /\ BirdeyeFailed /\ SolscanFailed
  /\ httpLog = <<"birdeye/price", "solscan/meta">>
  /\ pc = "done"

\* C15 (as claimed): when both sources fail and there is no price and no
\* supply, the terminal progress event of the pass has state 'error'
C15_AggregateFailureErrorEvent ==
  (MarketReturned /\ BirdeyeFailed /\ SolscanFailed /\ NoPrimaryField
     /\ pc = "done") =>
    LastEvent.state = "error"

\* C16: a market-data call with a tokenSymbol and no tokenMintAddress gets a
\* Failure message from both fetchers, without any HTTP request, has no price
\* and no supply, and returns the aggregate failure
C16_SymbolOnlyFails ==
  (MarketReturned
     /\ TruthyStr(adapterCalls[1].args.tokenSymbol)
     /\ adapterCalls[1].args.tokenMintAddress \in {None, Some("")}) =>
    /\ BirdeyeFailed
    /\ SolscanFailed
    /\ NoPrimaryField
    /\ httpLog = <<>>
    /\ WholesaleFailure
    /\ Len(MarketValue.error) = 3

C16_Witness ==
  /\ MarketReturned
  /\ adapterCalls[1].args.tokenSymbol = Some("$NOS")
  /\ adapterCalls[1].args.tokenMintAddress = None
  /\ BirdeyeResult.error
       = Some("Birdeye: Mint address preferred for precise data.")
  /\ pc = "done"

\* C19: past its identifier check execute awaits fetchBirdeyeData, then
\* fetchSolscanData whatever Birdeye returned, then sets lastUpdated, then
\* returns: both sources have returned before any value is returned, and the
\* Solscan request is made even after a failed Birdeye request
C19_BothSourcesAwaited ==
  MarketReturned =>
    /\ marketCall[1].trace = <<"fetchBirdeyeData", "fetchSolscanData",
                               "lastUpdated", "return">>
    /\ marketCall[1].solscan # None
    /\ TruthyStr(adapterCalls[1].args.tokenMintAddress) =>
         /\ httpLog # <<>>
         /\ httpLog[Len(httpLog)] = "solscan/meta"
         /\ \A i \in 1..(Len(httpLog) - 1) : httpLog[i] # "solscan/meta"

C19_Witness ==
  /\ MarketReturned
  /\ BirdeyeFailed
  /\ httpLog = <<"birdeye/price", "birdeye/overview", "solscan/meta">>
  /\ ~SolscanFailed

----------------------------------------------------------------------------
(* Vocabulary of the adapter properties *)

AdapterRan == adapterRun # None

\* a returned Failure value: an object with an error member
ReturnedFailure ==
  /\ adapterRun[1].kind = "returned"
  /\ "error" \in DOMAIN adapterRun[1].value

\* C17 (as claimed): no adapter call ends in an exception: a call that the
\* provider answers ends in a returned value, and a transport failure of the
\* search provider or the retrieve tool ends in a returned Failure value
C17_AdaptersNeverThrow ==
  AdapterRan =>
    /\ adapterRun[1].kind # "thrown"
    /\ (adapterRun[1].adapter # "getSolanaTokenMarketDataTool.execute"
          /\ adapterRun[1].env.transport = "neterr") => ReturnedFailure

\* C18 (as claimed): a retrieve call whose backend answers HTTP 500, whatever
\* the body, returns a Failure value and does not throw
C18_Retrieve500IsFailure ==
  (AdapterRan /\ adapterRun[1].adapter = "retrieveTool.execute"
     /\ adapterRun[1].env.transport = "ok"
     /\ adapterRun[1].env.status = 500) =>
    ReturnedFailure

\* C20 (as claimed): every call to a provider is bounded in time, so a pass
\* that has not finished always has a next step to take: it never sits in an
\* await that nothing will end
C20_PassAlwaysTerminates == Finished \/ ENABLED Next

\* the steps of the adapter call
Called(step) ==
  \E i \in DOMAIN adapterRun[1].trace : adapterRun[1].trace[i] = step

MarketRan ==
  AdapterRan /\ adapterRun[1].adapter = "getSolanaTokenMarketDataTool.execute"

AbsentOrEmpty(field) == field = None \/ field = Some("")

\* C21: execute called with neither tokenSymbol nor tokenMintAddress returns
\* an error value and calls neither fetchBirdeyeData nor fetchSolscanData, and
\* the schema's refinement rejects exactly the inputs whose two fields are
\* both absent or empty
C21_IdentifierRequired ==
  MarketRan =>
    LET params == adapterRun[1].input
    IN  /\ (params.tokenSymbol = None /\ params.tokenMintAddress = None) =>
             /\ ReturnedFailure
             /\ ~Called("fetchBirdeyeData")
             /\ ~Called("fetchSolscanData")
             /\ adapterRun[1].requests = <<>>
        /\ ~SchemaRefinement(params) <=>
             (AbsentOrEmpty(params.tokenSymbol)
                /\ AbsentOrEmpty(params.tokenMintAddress))

C21_Witness ==
  /\ MarketRan
  /\ adapterRun[1].input.tokenSymbol = None
  /\ adapterRun[1].input.tokenMintAddress = None
  /\ adapterRun[1].env.birdeyeKey
  /\ adapterRun[1].value.error =
       <<"Tool execution error: Token symbol or mint address is required.">>

RetrieveRan == AdapterRan /\ adapterRun[1].adapter = "retrieveTool.execute"

\* the backend answered the retrieve call and did not deliver a page: the
\* transport failed, the status was not 2xx, or the body held no content
BackendFailedOrEmpty ==
  \/ adapterRun[1].env.transport = "neterr"
  \/ /\ adapterRun[1].env.transport = "ok"
     /\ \/ adapterRun[1].env.status # 200
        \/ adapterRun[1].env.body # "content"

\* C22 (as claimed): a retrieve call uses exactly one backend, Jina if and
\* only if JINA_API_KEY is configured and Tavily extract otherwise, sends one
\* request, and returns a Failure when that backend fails or has no content
C22_ExactlyOneBackend ==
  RetrieveRan =>
    /\ Called("fetchJinaReaderData") <=> adapterRun[1].env.jinaKey
    /\ Called("fetchTavilyExtractData") <=> ~adapterRun[1].env.jinaKey
    /\ Len(adapterRun[1].requests) = 1
    /\ BackendFailedOrEmpty => ReturnedFailure

\* the number of turns the selection call may be given
WindowBound == IF version = 1 THEN 3 ELSE 5

\* C23: the tool-selection call is given exactly the last min(n, 5) turns of
\* a conversation of n turns (min(n, 3) in the first version), in their
\* original order
C23_BoundedRecentSuffix ==
  selectionCalls # <<>> =>
    LET n == Len(coreMessages)
        k == Min(n, WindowBound)
        window == selectionCalls[1]
    IN  /\ Len(window) = k
        /\ \A i \in 1..k : window[i] = coreMessages[n - k + i]

C23_Witness ==
  /\ selectionCalls # <<>>
  /\ version = 2
  /\ Len(coreMessages) > 5
  /\ selectionCalls[1] = SubSeq(coreMessages, Len(coreMessages) - 4,
                                Len(coreMessages))

\* the search adapter was dispatched; its arguments and the parameters of the
\* parsed invocation it was dispatched for
SearchDispatched ==
  /\ adapterCalls # <<>>
  /\ adapterCalls[1].adapter = "executeSearchViaApi"

SearchCallArgs == adapterCalls[1].args
SearchParams == toolCall[1].parameters[1]

\* the default the code declares: 7, 5 for an ollama model; 10 and 5 in the
\* first version
DeclaredDefault ==
  IF IncludesOllama(model) THEN 5 ELSE IF version = 1 THEN 10 ELSE 7

TavilyRan ==
  AdapterRan /\ adapterRun[1].adapter = "TavilySearchProvider.search"

\* C25: the query sent to Tavily has length max(len(q), 5), begins with the
\* query q the provider was called with, and is q itself when len(q) >= 5
C25_QueryPadded ==
  TavilyRan =>
    LET q == adapterRun[1].input.query
        sent == adapterRun[1].requests[1].query
    IN  /\ Len(sent) = Max(Len(q), 5)
        /\ SubSeq(sent, 1, Len(q)) = q
        /\ Len(q) >= 5 => sent = q

C25_Witness ==
  /\ TavilyRan
  /\ Len(adapterRun[1].input.query) = 3
  /\ Len(adapterRun[1].requests[1].query) = 5
  /\ adapterRun[1].kind = "returned"

\* the retrieve call returned a page
PageReturned ==
  /\ RetrieveRan
  /\ adapterRun[1].kind = "returned"
  /\ "content" \in DOMAIN adapterRun[1].value

\* C26: for both backends the content the retrieve tool returns has length
\* min(len(original), 10000) and is a prefix of the original content
C26_ContentCapped ==
  PageReturned =>
    LET original == Content(adapterRun[1].env.contentLen)
        content == adapterRun[1].value.content
    IN  /\ content.len = Min(original.len, 10000)
        /\ content.origin = original.origin
        /\ content.start = original.start

C26_Witness ==
  /\ PageReturned
  /\ ~adapterRun[1].env.jinaKey
  /\ adapterRun[1].env.contentLen > 10000
  /\ adapterRun[1].value.content.len = 10000

\* the parse step of the pass has run
Parsed == parserCalls # <<>>

ParsedWith(schema) ==
  \E i \in DOMAIN parserCalls : parserCalls[i] = schema

\* the tool name the completion carries, as the schema-less parse gives it
ChosenToolName == parseToolCallXml(text[1], "none").tool

\* C27: the second executeToolCall first parses with no schema to get the
\* tool name, then parses the parameters with searchSchema exactly when the
\* name is 'search' and with solanaTokenMarketDataSchema exactly when it is
\* 'getSolanaTokenMarketDataTool'; for any other non-empty name it reuses the
\* schema-less result and makes no second parse
C27_SchemaMatchesToolName ==
  (version = 2 /\ Parsed) =>
    /\ parserCalls[1] = "none"
    /\ Len(parserCalls) <= 2
    /\ ParsedWith("searchSchema") <=> ChosenToolName = "search"
    /\ ParsedWith("solanaTokenMarketDataSchema")
         <=> ChosenToolName = "getSolanaTokenMarketDataTool"
    /\ (ChosenToolName \notin {"", "search", "getSolanaTokenMarketDataTool"})
         => /\ parserCalls = <<"none">>
            /\ toolCall = Some(parseToolCallXml(text[1], "none"))

C27_Witness ==
  /\ version = 2
  /\ parserCalls = <<"none", "solanaTokenMarketDataSchema">>
  /\ toolCall[1].tool = "getSolanaTokenMarketDataTool"
  /\ toolCall[1].parameters # None

\* the parsed invocation names a tool that is neither of the two dispatched
UnrecognizedToolSelected ==
  /\ ToolSelected
  /\ toolCall[1].tool \notin {"search", "getSolanaTokenMarketDataTool"}

\* the payload that says the tool is not implemented (first version) or not
\* implemented or recognized (second version)
NotImplementedJson ==
  ErrorJson(<<"Tool '", toolCall[1].tool,
              IF version = 1 THEN "' is not implemented."
              ELSE "' is not implemented or recognized.">>)

\* C28: a pass whose invocation names a non-empty tool other than 'search'
\* and 'getSolanaTokenMarketDataTool' calls no adapter, sets the result to
\* the not-implemented error payload, emits 'call' then 'result', and returns
\* the two synthesized turns
C28_UnrecognizedTool ==
  UnrecognizedToolSelected =>
    /\ adapterCalls = <<>>
    /\ httpLog = <<>>
    /\ toolError = None
    /\ thrown = None
    /\ pc \in {"writeCall", "dispatch", "writeResult", "synthesize", "done"}
    /\ pc \in {"writeResult", "synthesize", "done"} =>
         toolResultJson = NotImplementedJson
    /\ pc \in {"synthesize", "done"} => EventStates = <<"call", "result">>
    /\ pc = "done" =>
         /\ returned # None
         /\ Len(returned[1].toolCallMessages) = 2
         /\ returned[1].toolCallMessages[1].content.result = NotImplementedJson
         /\ returned[1].toolCallDataAnnotation # None

C28_Witness ==
  /\ UnrecognizedToolSelected
  /\ toolCall[1].tool = "retrieve"
  /\ pc = "done"
  /\ EventStates = <<"call", "result">>
  /\ returned # None

\* C29: in a finished pass that selected a tool, the 'call' event, the
\* terminal event and the returned data annotation carry the same toolCallId,
\* toolName and serialized args, and the terminal event, the data annotation
\* and the assistant turn carry the same serialized result
C29_OneCallOneIdentity ==
  (ToolSelected /\ pc = "done") =>
    LET call == dataStream[1]
        terminal == dataStream[2]
        annotation == returned[1].toolCallDataAnnotation[1]
        assistant == returned[1].toolCallMessages[1]
    IN  /\ call.toolCallId = terminal.toolCallId
        /\ call.toolCallId = annotation.toolCallId
        /\ call.toolName = terminal.toolName
        /\ call.toolName = annotation.toolName
        /\ call.args = terminal.args
        /\ call.args = annotation.args
        /\ terminal.result # None
        /\ terminal.result = annotation.result
        /\ terminal.result = assistant.content.result
        /\ assistant.role = "assistant"

C29_Witness ==
  /\ ToolSelected
  /\ pc = "done"
  /\ dataStream[1].args # None
  /\ dataStream[2].state = "error"
  /\ returned[1].toolCallDataAnnotation[1].result = dataStream[2].result
  /\ returned[1].toolCallDataAnnotation[1].toolCallId = NumIds

IsBirdeyeRequest(r) == r \in {"birdeye/price", "birdeye/overview"}

\* execute got past its identifier check and called fetchBirdeyeData
BirdeyeCalled == MarketRan /\ adapterRun[1].birdeye # None

\* C30: fetchBirdeyeData sends no request without BIRDEYE_API_KEY or without
\* tokenMintAddress, asks for the price before the overview, returns a price
\* only when both requests succeeded, returns an error and no price when
\* either request failed, and does not send the overview request after a
\* failed price request
C30_BirdeyePriceNeedsBothRequests ==
  BirdeyeCalled =>
    LET params == adapterRun[1].input
        env == adapterRun[1].env
        result == adapterRun[1].birdeye[1]
        sent == SelectSeq(adapterRun[1].requests, IsBirdeyeRequest)
    IN  /\ (~env.birdeyeKey \/ params.tokenMintAddress = None) => sent = <<>>
        /\ sent \in {<<>>, <<"birdeye/price">>,
                     <<"birdeye/price", "birdeye/overview">>}
        /\ result.price # None =>
             /\ sent = <<"birdeye/price", "birdeye/overview">>
             /\ env.price = "ok"
             /\ env.overview = "ok"
        /\ (sent # <<>> /\ (env.price # "ok" \/ env.overview # "ok")) =>
             /\ result.error # None
             /\ result.price = None
        /\ (sent # <<>> /\ env.price # "ok") => sent = <<"birdeye/price">>

C30_Witness ==
  /\ BirdeyeCalled
  /\ adapterRun[1].env.birdeyeKey
  /\ adapterRun[1].env.price = "ok"
  /\ adapterRun[1].env.overview = "http500"
  /\ adapterRun[1].env.priceValue = Some(5)
  /\ SelectSeq(adapterRun[1].requests, IsBirdeyeRequest)
       = <<"birdeye/price", "birdeye/overview">>
  /\ adapterRun[1].birdeye[1].price = None

====
